---- MODULE Spec2Model ----
(***************************************************************************)
(* EduFlow: the three Streamlit pages (pages/1_login.py,                   *)
(* pages/2_instructor.py, pages/3_student.py) as a state machine.          *)
(*                                                                         *)
(* One step is one script run (a render) of the browser session under     *)
(* observation, or the completion of the authorization-code exchange that  *)
(* a login render started, or the expiry of the persisted credential, or   *)
(* a step of another session of the same process.  All sessions share the  *)
(* single on-disk record TOKEN_FILE and each has its own st.session_state, *)
(* so the other sessions appear through what their runs do to TOKEN_FILE.  *)
(***************************************************************************)
EXTENDS Integers, FiniteSets, Sequences

\* ---------------------------------------------------------------- bounds
MaxCreds == 2         \* successful code exchanges in one behaviour
NumCourses == 1       \* course ids the remote system may list
SelectCap == 2        \* cap of the per-login count of role selections
NumStudents == 1      \* identities an instructor may enroll
MaxDay == 1           \* days (0..MaxDay) due dates and the clock range over
MaxAssignments == 1   \* assignments a course may list

Courses == 1..NumCourses
Students == 1..NumStudents
Pages == {"login", "instructor", "student"}

VARIABLES
    TOKEN_FILE,     \* the pickled credential on disk: [exists, id, valid]
    nextCred,       \* id of the next credential the identity provider issues
    page,           \* the page the session is on
    session_state,  \* st.session_state of the session
    pend,           \* "idle", "rerun" (st.rerun / st.switch_page pending)
                    \* or "exchanging" (fetch_token in flight)
    code,           \* the auth_code_input widget holds a code
    out,            \* what the session's latest script run did and showed
    replaced,       \* kind of record the session's latest successful
                    \* exchange overwrote
    selects,        \* role selections of the session since its last sign-out
    classroom,      \* the remote Classroom: its courses and their rosters
    course_copy,    \* the course dict that st.session_state.current_course
                    \* holds: "none", "fresh" (equal to the remote course)
                    \* or "stale" (the remote course has changed since)
    act,            \* the latest step of the course-management session:
                    \* its event, the remote calls its form issued, how
                    \* they went, the message it showed, the course it
                    \* created, and whether the course data it showed
                    \* differ from the remote course
    work,           \* one assignment of the student's course-detail view:
                    \* the assignment, the state of its submission, the
                    \* clock, and the status badge shown for it
    pc              \* where a run that is followed file access by file
                    \* access stands: the source line of its next access
                    \* to TOKEN_FILE, and the event it handles

\* what the course-management runs add to the session's state
ext == <<classroom, course_copy, act>>

\* what the scripts' runs, taken as single steps, leave alone
rest == <<ext, work, pc>>

vars == <<TOKEN_FILE, nextCred, page, session_state, pend, code, out,
          replaced, selects, rest>>

\* ------------------------------------------------------------ credential
NoFile == [exists |-> FALSE, id |-> 0, valid |-> FALSE]

\* flow.credentials after a successful fetch_token: a fresh, valid token
NewCred(n) == [exists |-> TRUE, id |-> n, valid |-> TRUE]

FileKind(f) == IF ~f.exists THEN "absent" ELSE IF f.valid THEN "valid" ELSE "invalid"

is_authenticated_exists_only(f) == f.exists

\* 1_login.py is_authenticated: the file exists and creds.valid
is_authenticated(f) == f.exists /\ f.valid

\* ---------------------------------------------------------- session state
\* current_course: -1 no key, 0 None, c >= 1 the course dict of course c
EmptySS == [user_role |-> "absent", current_course |-> -1,
            show_create_course |-> "absent"]

SelectedRole_swapped(ev) ==
    IF ev = "student_role_select_btn" THEN "instructor"
    ELSE IF ev = "instructor_role_select_btn" THEN "student"
    ELSE "absent"

\* the value the clicked role button stores in st.session_state.user_role
SelectedRole(ev) ==
    IF ev = "student_role_select_btn" THEN "student"
    ELSE IF ev = "instructor_role_select_btn" THEN "instructor"
    ELSE "absent"

RoleButtons == {"student_role_select_btn", "instructor_role_select_btn"}

needs_role_always(st) == TRUE

\* 'user_role' not in st.session_state
needs_role(st) == st.user_role = "absent"

TargetPage_student_only(role) == "student"

\* target page of Go to Dashboard
TargetPage(role) == IF role = "instructor" THEN "instructor" ELSE "student"

\* ------------------------------------------------------------ script runs
\* The result of one script run: the file and session state it leaves, what
\* it showed (view), what it did (did), whether it issued Classroom API
\* calls (api), whether Back to All Courses was rendered (back), the courses
\* whose cards were rendered (shown), the auth_code_input widget rendered
\* (box), the page switched to ("" for none) and how the run ended (pend).
R0(f, st) ==
    [file |-> f, ss |-> st, pend |-> "idle", view |-> "Exception",
     did |-> "none", api |-> FALSE, back |-> FALSE, shown |-> {},
     box |-> FALSE, page |-> ""]

\* os.remove(TOKEN_FILE); st.session_state.clear(); st.rerun()
SignOut(f, st, view) ==
    [R0(NoFile, EmptySS) EXCEPT !.pend = "rerun", !.view = view,
                                !.did = "signout"]

\* 1_login.py main.  txt: the value of auth_code_input in this run;
\* uiOk: the userinfo lookup succeeds.
login_main(f, st, ev, txt, uiOk) ==
    IF ~is_authenticated(f)
    THEN IF txt
         THEN [R0(f, st) EXCEPT !.view = "Unauth", !.box = TRUE,
                                !.pend = "exchanging"]
         ELSE [R0(f, st) EXCEPT !.view = "Unauth", !.box = TRUE]
    ELSE IF ~uiOk
    THEN R0(f, st)
    ELSE IF needs_role(st)
    THEN IF ev \in RoleButtons
         THEN [R0(f, [st EXCEPT !.user_role = SelectedRole(ev)])
                 EXCEPT !.view = "RoleSelector", !.did = "role",
                        !.pend = "rerun"]
         ELSE [R0(f, st) EXCEPT !.view = "RoleSelector"]
    ELSE IF ev = "go_to_dashboard_btn"
    THEN [R0(f, st) EXCEPT !.view = "Welcome", !.did = "switch",
                           !.pend = "rerun",
                           !.page = TargetPage(st.user_role)]
    ELSE IF ev = "sign_out_btn"
    THEN SignOut(f, st, "Welcome")
    ELSE [R0(f, st) EXCEPT !.view = "Welcome"]

\* 2_instructor.py main, lines 271-275: the keys the view initialises
InstructorInit(st) ==
    [st EXCEPT !.current_course = IF @ = -1 THEN 0 ELSE @,
               !.show_create_course = IF @ = "absent" THEN "false" ELSE @]

\* 3_student.py main, lines 235-237
StudentInit(st) ==
    [st EXCEPT !.current_course = IF @ = -1 THEN 0 ELSE @]

\* The authentication check both dashboards open with (2_instructor.py
\* lines 200-219, 3_student.py lines 168-187), when it stops the run.
entry_check(f, st) ==
    IF ~f.exists
    THEN [R0(f, st) EXCEPT !.view = "PleaseLogin"]
    ELSE [R0(NoFile, st) EXCEPT !.view = "SessionExpired"]

\* 2_instructor.py main.  c: the course of the clicked card; courses: what
\* list_courses returns in this run; apiOk: the content's remote reads
\* succeed.
instructor_main(f, st, ev, c, uiOk, courses, apiOk) ==
    IF ~(f.exists /\ f.valid)
    THEN entry_check(f, st)
    ELSE IF ~uiOk
    THEN R0(f, st)
    ELSE
    LET st1 == InstructorInit(st)
        st2 == IF ev = "create_new_course"
               THEN [st1 EXCEPT !.show_create_course = "true",
                                !.current_course = 0]
               ELSE st1
        back == st2.current_course > 0
        st3 == IF back /\ ev = "back_to_all_courses"
               THEN [st2 EXCEPT !.current_course = 0,
                                !.show_create_course = "false"]
               ELSE st2
        R == [R0(f, st3) EXCEPT !.back = back]
    IN  IF ev = "sidebar_sign_out"
        THEN SignOut(f, st3, "I_Sidebar")
        ELSE IF st3.show_create_course = "true"
        THEN [R EXCEPT !.view = "I_CreateForm"]
        ELSE IF st3.current_course > 0
        THEN [R EXCEPT !.api = TRUE,
                       !.view = IF apiOk THEN "I_Detail" ELSE "I_ContentError"]
        ELSE IF ~apiOk
        THEN [R EXCEPT !.api = TRUE, !.view = "I_ContentError"]
        ELSE IF courses = {}
        THEN IF ev = "create_first_course"
             THEN [R EXCEPT !.api = TRUE, !.view = "I_List",
                            !.ss = [st3 EXCEPT !.show_create_course = "true"],
                            !.pend = "rerun"]
             ELSE [R EXCEPT !.api = TRUE, !.view = "I_List"]
        ELSE IF ev = "manage" /\ c \in courses
        THEN [R EXCEPT !.api = TRUE, !.view = "I_List", !.shown = courses,
                       !.ss = [st3 EXCEPT !.current_course = c]]
        ELSE [R EXCEPT !.api = TRUE, !.view = "I_List", !.shown = courses]

\* 3_student.py main
student_main(f, st, ev, c, uiOk, courses, apiOk) ==
    IF ~(f.exists /\ f.valid)
    THEN entry_check(f, st)
    ELSE IF ~uiOk
    THEN R0(f, st)
    ELSE
    LET st1 == StudentInit(st)
        back == st1.current_course > 0
        R == [R0(f, st1) EXCEPT !.back = back]
    IN  IF back /\ ev = "back_to_all_courses"
        THEN [R EXCEPT !.view = "S_Sidebar", !.pend = "rerun",
                       !.ss = [st1 EXCEPT !.current_course = 0]]
        ELSE IF ev = "sidebar_sign_out"
        THEN SignOut(f, st1, "S_Sidebar")
        ELSE IF ~apiOk
        THEN [R EXCEPT !.api = TRUE, !.view = "S_ContentError"]
        ELSE IF st1.current_course > 0
        THEN [R EXCEPT !.api = TRUE, !.view = "S_Detail"]
        ELSE IF ev = "view" /\ c \in courses
        THEN [R EXCEPT !.api = TRUE, !.view = "S_List", !.shown = courses,
                       !.ss = [st1 EXCEPT !.current_course = c]]
        ELSE [R EXCEPT !.api = TRUE, !.view = "S_List", !.shown = courses]

\* The script of page p
RunScript(p, f, st, ev, txt, c, uiOk, courses, apiOk) ==
    IF p = "login" THEN login_main(f, st, ev, txt, uiOk)
    ELSE IF p = "instructor"
    THEN instructor_main(f, st, ev, c, uiOk, courses, apiOk)
    ELSE student_main(f, st, ev, c, uiOk, courses, apiOk)

\* ------------------------------------------------------------ the browser
\* The widgets a run left on the page: what the user can act on next.
Clickable(o) ==
    IF o.view \in {"Unauth", "UnauthError"}
    THEN {"auth_code_input", "auth_code_clear"}
    ELSE IF o.view = "RoleSelector" THEN RoleButtons
    ELSE IF o.view = "Welcome" THEN {"go_to_dashboard_btn", "sign_out_btn"}
    ELSE IF o.view \in {"I_CreateForm", "I_Detail", "I_ContentError", "I_List"}
    THEN {"create_new_course", "sidebar_sign_out"}
         \cup (IF o.back THEN {"back_to_all_courses"} ELSE {})
         \cup (IF o.view = "I_List" /\ o.shown # {} THEN {"manage"} ELSE {})
         \cup (IF o.view = "I_List" /\ o.shown = {} THEN {"create_first_course"}
               ELSE {})
    ELSE IF o.view \in {"S_Detail", "S_ContentError", "S_List"}
    THEN {"sidebar_sign_out"}
         \cup (IF o.back THEN {"back_to_all_courses"} ELSE {})
         \cup (IF o.view = "S_List" /\ o.shown # {} THEN {"view"} ELSE {})
    ELSE {}

\* One script run of page p on the event ev, and what it leaves behind.
\* out records the run: its page, what it showed and did, the role button
\* clicked, whether a valid credential was on disk when it started, the
\* role it started with, what the run before it did, and whether it left a
\* credential file.
Run(p, ev, c, uiOk, courses, apiOk) ==
    LET txt == IF ev = "auth_code_input" THEN TRUE
               ELSE IF ev = "auth_code_clear" THEN FALSE
               ELSE code
        R == RunScript(p, TOKEN_FILE, session_state, ev, txt, c, uiOk,
                       courses, apiOk)
    IN  /\ TOKEN_FILE' = R.file
        /\ page' = IF R.page = "" THEN p ELSE R.page
        /\ session_state' = R.ss
        /\ pend' = R.pend
        /\ code' = (R.box /\ txt)
        /\ out' = [page |-> p, view |-> R.view, did |-> R.did,
                   btn |-> IF ev \in RoleButtons THEN ev ELSE "",
                   credOk |-> TOKEN_FILE.exists /\ TOKEN_FILE.valid,
                   role |-> session_state.user_role,
                   api |-> R.api, back |-> R.back, shown |-> R.shown,
                   follows |-> out.did,
                   signedOutOf |-> IF out.did = "signout" THEN out.page ELSE "",
                   fileLeft |-> R.file.exists]
        /\ selects' = IF R.did = "signout" THEN 0
                      ELSE IF R.did = "role" /\ selects < SelectCap THEN selects + 1
                      ELSE selects
        /\ UNCHANGED <<nextCred, replaced, rest>>

\* The user opens page p (the pages menu), or reruns the current page.
Navigate(p) ==
    /\ pend = "idle"
    /\ \E uiOk, apiOk \in BOOLEAN, courses \in SUBSET Courses :
          Run(p, "none", 0, uiOk, courses, apiOk)

\* The user acts on a widget of the page as last rendered.
Interact(ev, c) ==
    /\ pend = "idle"
    /\ ev \in Clickable(out)
    /\ IF ev \in {"manage", "view"} THEN c \in out.shown ELSE c = 0
    /\ \E uiOk, apiOk \in BOOLEAN, courses \in SUBSET Courses :
          Run(page, ev, c, uiOk, courses, apiOk)

\* The run that st.rerun() or st.switch_page() asked for.
Rerun ==
    /\ pend = "rerun"
    /\ \E uiOk, apiOk \in BOOLEAN, courses \in SUBSET Courses :
          Run(page, "rerun", 0, uiOk, courses, apiOk)

FileAfterExchange_truncates(f, ok, new) == IF ok THEN new ELSE NoFile

FileAfterExchange_keeps(f, ok, new) ==
    IF ok /\ ~f.exists THEN new ELSE f

\* 1_login.py lines 219-227: fetch_token, then pickle.dump to the file
\* opened "wb"; a failed fetch_token leaves the file alone.
FileAfterExchange(f, ok, new) == IF ok THEN new ELSE f

\* fetch_token returns (ok) or raises: the end of the run that pasted a code
FinishExchange(ok) ==
    /\ pend = "exchanging"
    /\ ok => nextCred <= MaxCreds
    /\ TOKEN_FILE' = FileAfterExchange(TOKEN_FILE, ok, NewCred(nextCred))
    /\ nextCred' = IF ok THEN nextCred + 1 ELSE nextCred
    /\ replaced' = IF ok THEN FileKind(TOKEN_FILE) ELSE replaced
    /\ pend' = IF ok THEN "rerun" ELSE "idle"
    /\ out' = [out EXCEPT !.did = IF ok THEN "exchange" ELSE "exchange_failed",
                          !.view = IF ok THEN "LoginSuccess" ELSE "UnauthError",
                          !.fileLeft = TOKEN_FILE'.exists]
    /\ UNCHANGED <<page, session_state, code, selects, rest>>

\* creds.valid turns false when the access token expires
Expire ==
    /\ TOKEN_FILE.exists /\ TOKEN_FILE.valid
    /\ TOKEN_FILE' = [TOKEN_FILE EXCEPT !.valid = FALSE]
    /\ UNCHANGED <<nextCred, page, session_state, pend, code, out, replaced,
                   selects, rest>>

\* ---------------------------------------------------------- other sessions
\* Another session's code exchange succeeds (it pasted its code in a run
\* that found no valid credential, as early as the start).
OtherExchange ==
    /\ nextCred <= MaxCreds
    /\ TOKEN_FILE' = FileAfterExchange(TOKEN_FILE, TRUE, NewCred(nextCred))
    /\ nextCred' = nextCred + 1
    /\ UNCHANGED <<page, session_state, pend, code, out, replaced, selects,
                   rest>>

\* Another session signs out: its run found the credential valid.
OtherSignOut ==
    /\ TOKEN_FILE.exists /\ TOKEN_FILE.valid
    /\ TOKEN_FILE' = SignOut(TOKEN_FILE, EmptySS, "Welcome").file
    /\ UNCHANGED <<nextCred, page, session_state, pend, code, out, replaced,
                   selects, rest>>

\* Another session opens a dashboard and finds the credential expired.
OtherEntryCheck ==
    /\ TOKEN_FILE.exists /\ ~TOKEN_FILE.valid
    /\ TOKEN_FILE' = entry_check(TOKEN_FILE, EmptySS).file
    /\ UNCHANGED <<nextCred, page, session_state, pend, code, out, replaced,
                   selects, rest>>

\* ------------------------------------------------------ course management
\* What the text inputs of the instructor's forms may hold ("" is a field
\* left empty).
Titles == {"Algebra", "Biology"}

\* No course exists and nobody is enrolled.
NoClassroom ==
    [courses |-> [c \in Courses |-> FALSE],
     students |-> [c \in Courses |-> [s \in Students |-> 0]]]

NoAct == [ev |-> "none", calls |-> <<>>, oks |-> <<>>, msg |-> "none",
          made |-> 0, stale |-> FALSE]

\* The forms' inputs, all left empty
BlankForm ==
    [title |-> "", section |-> "", description |-> "", room |-> "",
     text |-> "", email |-> 0, kind |-> "Google Drive File",
     drive_file_id |-> "", link_url |-> "", link_title |-> "",
     due_date |-> 0]

\* What list_courses returns when the call succeeds
list_courses(cls) == {c \in Courses : cls.courses[c]}

create_course_active(course_title, course_section, description, room) ==
    [op |-> "courses.create", course |-> 0,
     body |-> [name |-> course_title, section |-> course_section,
               descriptionHeading |-> <<"Welcome to ", course_title>>,
               description |-> description, room |-> room,
               ownerId |-> "me", courseState |-> "ACTIVE"]]

\* 2_instructor.py create_course: the courses.create call
create_course(course_title, course_section, description, room) ==
    [op |-> "courses.create", course |-> 0,
     body |-> [name |-> course_title, section |-> course_section,
               descriptionHeading |-> <<"Welcome to ", course_title>>,
               description |-> description, room |-> room,
               ownerId |-> "me", courseState |-> "PROVISIONED"]]

\* The remote system creates the course under the lowest free id
NewCourseId(cls) ==
    CHOOSE c \in Courses :
        /\ ~cls.courses[c]
        /\ \A d \in Courses : ~cls.courses[d] => c <= d

CourseCreated(cls) == [cls EXCEPT !.courses[NewCourseId(cls)] = TRUE]

\* 2_instructor.py create_announcement: the announcements.create call
create_announcement(course_id, text) ==
    [op |-> "announcements.create", course |-> course_id,
     body |-> [text |-> text, state |-> "PUBLISHED"]]

\* 2_instructor.py create_drive_file_material, create_link_material
create_drive_file_material(drive_file_id) ==
    [driveFile |-> [driveFile |-> [id |-> drive_file_id,
                                   title |-> "Drive File"],
                    shareMode |-> "VIEW"]]

create_link_material(url, title) == [link |-> [url |-> url, title |-> title]]

\* 2_instructor.py add_course_materials: courseWorkMaterials.create
add_course_materials(course_id, title, description, materials) ==
    [op |-> "courseWorkMaterials.create", course |-> course_id,
     body |-> [title |-> title, description |-> description,
               materials |-> materials]]

\* 2_instructor.py create_coursework: courseWork.create.  materials = <<>>
\* is a body without the materials key (materials None or empty).
create_coursework(course_id, title, description, due_date, materials) ==
    [op |-> "courseWork.create", course |-> course_id,
     body |-> [title |-> title, description |-> description,
               workType |-> "ASSIGNMENT", state |-> "PUBLISHED",
               dueDate |-> due_date,
               dueTime |-> [hours |-> 23, minutes |-> 59],
               materials |-> materials]]

enroll_student_unchecked(roster, course_id, student_email, qOk, cOk) ==
    LET query == [op |-> "students.list", course |-> course_id,
                  body |-> [userId |-> student_email]]
        create == [op |-> "students.create", course |-> course_id,
                   body |-> [userId |-> student_email]]
    IN  IF qOk /\ cOk
        THEN [result |-> "success", calls |-> <<query, create>>,
              oks |-> <<TRUE, TRUE>>,
              roster |-> [roster EXCEPT ![student_email] = @ + 1]]
        ELSE [result |-> "error", calls |-> <<query, create>>,
              oks |-> <<qOk, FALSE>>, roster |-> roster]

enroll_student_ignores_query(roster, course_id, student_email, qOk, cOk) ==
    LET query == [op |-> "students.list", course |-> course_id,
                  body |-> [userId |-> student_email]]
        create == [op |-> "students.create", course |-> course_id,
                   body |-> [userId |-> student_email]]
    IN  IF qOk /\ roster[student_email] > 0
        THEN [result |-> "warning", calls |-> <<query>>, oks |-> <<TRUE>>,
              roster |-> roster]
        ELSE IF cOk
        THEN [result |-> "success", calls |-> <<query, create>>,
              oks |-> <<qOk, TRUE>>,
              roster |-> [roster EXCEPT ![student_email] = @ + 1]]
        ELSE [result |-> "error", calls |-> <<query, create>>,
              oks |-> <<qOk, FALSE>>, roster |-> roster]

\* 2_instructor.py lines 109-133, enroll_student.  roster is the course's
\* roster at the remote system; qOk and cOk tell whether the roster query
\* and the create call go through (oks, call by call).
enroll_student(roster, course_id, student_email, qOk, cOk) ==
    LET query == [op |-> "students.list", course |-> course_id,
                  body |-> [userId |-> student_email]]
        create == [op |-> "students.create", course |-> course_id,
                   body |-> [userId |-> student_email]]
    IN  IF ~qOk
        THEN [result |-> "error", calls |-> <<query>>, oks |-> <<FALSE>>,
              roster |-> roster]
        ELSE IF roster[student_email] > 0
        THEN [result |-> "warning", calls |-> <<query>>, oks |-> <<TRUE>>,
              roster |-> roster]
        ELSE IF cOk
        THEN [result |-> "success", calls |-> <<query, create>>,
              oks |-> <<TRUE, TRUE>>,
              roster |-> [roster EXCEPT ![student_email] = @ + 1]]
        ELSE [result |-> "error", calls |-> <<query, create>>,
              oks |-> <<TRUE, FALSE>>, roster |-> roster]

\* 2_instructor.py lines 448-454: the materials the material form submits
\* (<<>> for None)
form_materials(form) ==
    IF form.kind = "Google Drive File"
    THEN IF form.drive_file_id # ""
         THEN <<create_drive_file_material(form.drive_file_id)>>
         ELSE <<>>
    ELSE IF form.link_url # "" /\ form.link_title # ""
    THEN <<create_link_material(form.link_url, form.link_title)>>
    ELSE <<>>

assignment_materials_url_only(form) ==
    (IF form.drive_file_id # ""
     THEN <<create_drive_file_material(form.drive_file_id)>> ELSE <<>>)
    \o (IF form.link_url # ""
        THEN <<create_link_material(form.link_url, form.link_title)>>
        ELSE <<>>)

\* 2_instructor.py lines 481-485: the optional materials of the assignment
\* form
assignment_materials(form) ==
    (IF form.drive_file_id # ""
     THEN <<create_drive_file_material(form.drive_file_id)>> ELSE <<>>)
    \o (IF form.link_url # "" /\ form.link_title # ""
        THEN <<create_link_material(form.link_url, form.link_title)>>
        ELSE <<>>)

posted_twice(F, call) ==
    [F EXCEPT !.calls = <<call, call>>, !.oks = <<TRUE, TRUE>>,
              !.msg = "success", !.pend = "rerun"]

\* The try branch of a form whose remote call went through: st.success and
\* st.rerun()
posted(F, call) ==
    [F EXCEPT !.calls = <<call>>, !.oks = <<TRUE>>, !.msg = "success",
              !.pend = "rerun"]

failed_reruns(F, call) ==
    [F EXCEPT !.calls = <<call>>, !.oks = <<FALSE>>, !.msg = "error",
              !.pend = "rerun"]

\* The except branch of a form whose remote call raised: st.error
failed(F, call) ==
    [F EXCEPT !.calls = <<call>>, !.oks = <<FALSE>>, !.msg = "error"]

\* 2_instructor.py main, lines 312-506: the forms of the view that
\* instructor_main (result R) selected, on the form submission ev.  ok1 and
\* ok2 tell whether the first and the second remote call of the form go
\* through.
instructor_forms(R, ev, form, cls, ok1, ok2) ==
    LET cid == R.ss.current_course
        F0 == [ss |-> R.ss, pend |-> R.pend, view |-> R.view,
               msg |-> "none", calls |-> <<>>, oks |-> <<>>, made |-> 0,
               classroom |-> cls]
        Posted(call) ==
            IF ok1
            THEN [posted(F0, call) EXCEPT !.view = "I_Detail"]
            ELSE failed(F0, call)
    IN  IF ev = "create_course_form" /\ R.view = "I_CreateForm"
        THEN LET call == create_course(form.title, form.section,
                                       form.description, form.room)
             IN  IF ok1
                 THEN [posted(F0, call) EXCEPT
                          !.ss.show_create_course = "false",
                          !.made = NewCourseId(cls),
                          !.classroom = CourseCreated(cls)]
                 ELSE failed(F0, call)
        ELSE IF ev = "announcement_form" /\ cid > 0
                /\ R.view \in {"I_Detail", "I_ContentError"}
        THEN IF form.text # ""
             THEN Posted(create_announcement(cid, form.text))
             ELSE F0
        ELSE IF R.view # "I_Detail"
        THEN F0
        ELSE IF ev = "enroll_student_form"
        THEN IF form.email # 0
             THEN LET E == enroll_student(cls.students[cid], cid,
                                          form.email, ok1, ok2)
                  IN  [F0 EXCEPT !.calls = E.calls, !.oks = E.oks,
                                 !.msg = E.result,
                                 !.pend = IF E.result = "success"
                                          THEN "rerun" ELSE R.pend,
                                 !.classroom.students[cid] = E.roster]
             ELSE F0
        ELSE IF ev = "material_form"
        THEN IF form_materials(form) # <<>>
             THEN Posted(add_course_materials(cid, form.title,
                             form.description, form_materials(form)))
             ELSE F0
        ELSE IF ev = "assignment_form"
        THEN IF form.title # ""
             THEN Posted(create_coursework(cid, form.title,
                             form.description, form.due_date,
                             assignment_materials(form)))
             ELSE F0
        ELSE F0

\* ------------------------------------------------------ submission status
\* The values the model takes for hours and minutes; -1 is a field the
\* remote system left out of dueTime
Hours == {-1, 0, 23}
Minutes == {-1, 0, 59}

\* datetime(year, month, day, hour, minute) as minutes since day 0
datetime(day, hour, minute) == day * 1440 + hour * 60 + minute

\* 3_student.py lines 333-338: the due moment, with dueTime.get('hours', 23)
\* and dueTime.get('minutes', 59)
due_datetime(assignment) ==
    datetime(assignment.dueDate,
             IF assignment.dueTime.hours = -1 THEN 23
             ELSE assignment.dueTime.hours,
             IF assignment.dueTime.minutes = -1 THEN 59
             ELSE assignment.dueTime.minutes)

submission_status_inclusive(assignment, state, now) ==
    IF state = "TURNED_IN" THEN "Submitted"
    ELSE IF assignment.dueDate = -1 THEN "KeyError"
    ELSE IF now >= due_datetime(assignment) THEN "Late"
    ELSE "Pending"

\* 3_student.py lines 331-342: the status badge of an assignment.
\* assignment.dueDate = -1 is an assignment without dueDate and dueTime,
\* whose lookup raises KeyError.
submission_status(assignment, state, now) ==
    IF state = "TURNED_IN" THEN "Submitted"
    ELSE IF assignment.dueDate = -1 THEN "KeyError"
    ELSE IF now > due_datetime(assignment) THEN "Late"
    ELSE "Pending"

\* No assignment has been rendered
NoWork ==
    [assignment |-> [dueDate |-> -1,
                     dueTime |-> [hours |-> -1, minutes |-> -1]],
     state |-> "", now |-> 0, status |-> "none"]

\* A remote read of the student page
read(op, course_id) == [op |-> op, course |-> course_id, body |-> ""]

\* The first assignment of works whose due date is missing (0 if none):
\* the loop of lines 311-378 ends there with a KeyError
FirstUndated(works) ==
    IF \E i \in 1..Len(works) : works[i].assignment.dueDate = -1
    THEN CHOOSE i \in 1..Len(works) :
            /\ works[i].assignment.dueDate = -1
            /\ \A j \in 1..(i - 1) : works[j].assignment.dueDate # -1
    ELSE 0

student_content_turns_in(cur, works, now, fail) ==
    [calls |-> <<read("studentSubmissions.turnIn", cur)>>, ok |-> TRUE,
     last |-> 0]

\* 3_student.py main, lines 269-439: the remote reads of the content of a
\* run whose st.session_state.current_course is cur.  works are the
\* assignments list_assignments returns, each with the state of its
\* submission; fail numbers the list call that raises (0: none).  last is
\* the last assignment whose status badge was shown.
student_content(cur, works, now, fail) ==
    IF cur <= 0
    THEN [calls |-> <<read("courses.list", 0)>>, ok |-> fail # 1,
          last |-> 0]
    ELSE IF fail = 1
    THEN [calls |-> <<read("announcements.list", cur)>>, ok |-> FALSE,
          last |-> 0]
    ELSE IF fail = 2
    THEN [calls |-> <<read("announcements.list", cur),
                      read("courseWork.list", cur)>>,
          ok |-> FALSE, last |-> 0]
    ELSE LET k == FirstUndated(works)
             n == IF k = 0 THEN Len(works) ELSE k
             subs == [i \in 1..n |-> read("studentSubmissions.list", cur)]
             head == <<read("announcements.list", cur),
                       read("courseWork.list", cur)>> \o subs
         IN  IF k # 0
             THEN [calls |-> head, ok |-> FALSE,
                   last |-> IF works[k].state = "TURNED_IN" THEN k
                            ELSE k - 1]
             ELSE [calls |-> head
                             \o <<read("courseWorkMaterials.list", cur)>>,
                   ok |-> fail # 3, last |-> n]

\* ------------------------------------------- runs, file access by access
\* No run is under way
NoRun == [at |-> "idle", ev |-> "none"]

SignOutButtons == {"sign_out_btn", "sidebar_sign_out"}

\* The result of one access to TOKEN_FILE: the run goes on at the access
\* at, or ends showing view
goto(f, st, at) ==
    [file |-> f, ss |-> st, at |-> at, view |-> "", did |-> "none"]

ends(f, st, view) ==
    [file |-> f, ss |-> st, at |-> "idle", view |-> view, did |-> "none"]

\* The Sign Out handler (1_login.py 345-347, 2_instructor.py 298-300,
\* 3_student.py 256-258): os.remove(TOKEN_FILE) raises FileNotFoundError
\* when the file is gone, before st.session_state.clear()
remove_and_clear(p, f, st) ==
    IF f.exists
    THEN [file |-> NoFile, ss |-> EmptySS, at |-> "idle",
          view |-> IF p = "login" THEN "Welcome"
                   ELSE IF p = "instructor" THEN "I_Sidebar"
                   ELSE "S_Sidebar",
          did |-> "signout"]
    ELSE ends(f, st, "Exception")

\* 1_login.py: is_authenticated (31-34), the authenticated branch's open
\* (230) and the Sign Out handler (345), one access to TOKEN_FILE each
login_access(at, ev, f, st) ==
    IF at = "l31"
    THEN IF f.exists THEN goto(f, st, "l32") ELSE ends(f, st, "Unauth")
    ELSE IF at = "l32"
    THEN IF ~f.exists THEN ends(f, st, "Exception")
         ELSE IF f.valid THEN goto(f, st, "l230")
         ELSE ends(f, st, "Unauth")
    ELSE IF at = "l230"
    THEN IF ~f.exists THEN ends(f, st, "Exception")
         ELSE IF needs_role(st) THEN ends(f, st, "RoleSelector")
         ELSE IF ev = "sign_out_btn" THEN goto(f, st, "l345")
         ELSE ends(f, st, "Welcome")
    ELSE remove_and_clear("login", f, st)

\* 2_instructor.py (p = "instructor") and 3_student.py (p = "student"): the
\* entry check (201-219 / 169-187), the second check of the instructor page
\* (258), get_credentials (17-18), the Sign Out handler (298 / 256) and
\* get_classroom_service (306 / 264), one access to TOKEN_FILE each
dashboard_access(p, at, ev, f, st) ==
    IF at = "d201"
    THEN IF f.exists THEN goto(f, st, "d206")
         ELSE ends(f, st, "PleaseLogin")
    ELSE IF at = "d206"
    THEN IF ~f.exists THEN goto(f, st, "d217")
         ELSE IF ~f.valid THEN goto(f, st, "d212")
         ELSE IF p = "instructor" THEN goto(f, st, "d258")
         ELSE goto(f, st, "d17")
    ELSE IF at = "d212"
    THEN IF f.exists THEN ends(NoFile, st, "SessionExpired")
         ELSE goto(f, st, "d217")
    ELSE IF at = "d217"
    THEN IF f.exists THEN goto(f, st, "d218")
         ELSE ends(f, st, "InvalidSession")
    ELSE IF at = "d218"
    THEN IF f.exists THEN ends(NoFile, st, "InvalidSession")
         ELSE ends(f, st, "Exception")
    ELSE IF at = "d258"
    THEN IF f.exists THEN goto(f, st, "d17")
         ELSE ends(f, st, "PleaseLogin")
    ELSE IF at = "d17"
    THEN IF f.exists THEN goto(f, st, "d18")
         ELSE ends(f, st, "NoCredentials")
    ELSE IF at = "d18"
    THEN IF ~f.exists THEN ends(f, st, "Exception")
         ELSE IF ev = "sidebar_sign_out"
         THEN goto(f, IF p = "instructor" THEN InstructorInit(st)
                      ELSE StudentInit(st), "d298")
         ELSE goto(f, IF p = "instructor" THEN InstructorInit(st)
                      ELSE StudentInit(st), "d306")
    ELSE IF at = "d298"
    THEN remove_and_clear(p, f, st)
    ELSE IF at = "d306"
    THEN IF f.exists THEN goto(f, st, "d307")
         ELSE ends(f, st, "NoService")
    ELSE IF f.exists
    THEN ends(f, st, IF p = "instructor" THEN "I_List" ELSE "S_List")
    ELSE ends(f, st, "Exception")

Init ==
    /\ TOKEN_FILE = NoFile
    /\ nextCred = 1
    /\ page = "login"
    /\ session_state = EmptySS
    /\ pend = "idle"
    /\ code = FALSE
    /\ out = [page |-> "login", view |-> "NotOpened", did |-> "none",
              btn |-> "", credOk |-> FALSE, role |-> "absent",
              api |-> FALSE, back |-> FALSE, shown |-> {},
              follows |-> "none", signedOutOf |-> "", fileLeft |-> FALSE]
    /\ replaced = "none"
    /\ selects = 0
    /\ classroom = NoClassroom
    /\ course_copy = "none"
    /\ act = NoAct
    /\ work = NoWork
    /\ pc = NoRun

Next ==
    \/ \E p \in Pages : Navigate(p)
    \/ \E ev \in {"auth_code_input", "auth_code_clear",
            "student_role_select_btn", "instructor_role_select_btn",
            "go_to_dashboard_btn", "sign_out_btn", "create_new_course",
            "back_to_all_courses", "sidebar_sign_out", "manage", "view",
            "create_first_course"}, c \in {0} \cup Courses : Interact(ev, c)
    \/ Rerun
    \/ \E ok \in BOOLEAN : FinishExchange(ok)
    \/ Expire
    \/ OtherExchange
    \/ OtherSignOut
    \/ OtherEntryCheck

Spec == Init /\ [][Next]_vars

\* ------------------------------------------- the course-management session
\* The forms a run left on the page
Forms(o) ==
    IF o.view = "I_CreateForm" THEN {"create_course_form"}
    ELSE IF o.view = "I_Detail"
    THEN {"announcement_form", "enroll_student_form", "material_form",
          "assignment_form"}
    ELSE IF o.view = "I_ContentError" /\ o.back THEN {"announcement_form"}
    ELSE {}

\* What the user may have typed into the form ev before submitting it
FormInputs(ev) ==
    IF ev = "create_course_form"
    THEN {[BlankForm EXCEPT !.title = t, !.section = x,
                            !.description = "Overview", !.room = "101"] :
              t \in {""} \cup Titles, x \in {"", "Fall"}}
    ELSE IF ev = "announcement_form"
    THEN {[BlankForm EXCEPT !.text = t] : t \in {"", "Welcome"}}
    ELSE IF ev = "enroll_student_form"
    THEN {[BlankForm EXCEPT !.email = e] : e \in {0} \cup Students}
    ELSE IF ev = "material_form"
    THEN {[BlankForm EXCEPT !.kind = "Google Drive File",
                            !.drive_file_id = r] : r \in {"", "file"}}
         \cup {[BlankForm EXCEPT !.kind = "External Link",
                                 !.link_url = "url", !.link_title = t] :
                  t \in {"", "Slides"}}
    ELSE IF ev = "assignment_form"
    THEN {BlankForm}
         \cup {[BlankForm EXCEPT !.title = "Homework", !.drive_file_id = r,
                                 !.link_url = u, !.link_title = t] :
                  r \in {"", "file"}, u \in {"", "url"},
                  t \in {"", "Slides"}}
    ELSE {BlankForm}

\* How the reads of a run go: <<the userinfo lookup, the content read>>
\* (no content is read after a failed userinfo lookup)
Fetches == {<<FALSE, TRUE>>, <<TRUE, FALSE>>, <<TRUE, TRUE>>}

\* One run of 2_instructor.py by a session whose credential stays valid,
\* against the remote classroom: the event ev (on course c, with the form's
\* inputs), the userinfo lookup (uiOk), the content read (apiOk) and the
\* form's remote calls (ok1, ok2) going through or not.
InstrRun(ev, c, form, uiOk, apiOk, ok1, ok2) ==
    LET R == instructor_main(TOKEN_FILE, session_state, ev, c, uiOk,
                             list_courses(classroom), apiOk)
        F == instructor_forms(R, ev, form, classroom, ok1, ok2)
        cur == F.ss.current_course
        copy == IF cur <= 0 THEN "none"
                ELSE IF cur = session_state.current_course THEN course_copy
                ELSE "fresh"
    IN  /\ (ev = "create_course_form" /\ ok1)
              => list_courses(classroom) # Courses
        /\ TOKEN_FILE' = R.file
        /\ session_state' = F.ss
        /\ pend' = F.pend
        /\ classroom' = F.classroom
        /\ course_copy' = copy
        /\ act' = [ev |-> ev, calls |-> F.calls, oks |-> F.oks,
                   msg |-> F.msg, made |-> F.made,
                   stale |-> F.view = "I_Detail" /\ copy = "stale"]
        /\ out' = [page |-> "instructor", view |-> F.view,
                   did |-> IF F.msg = "success" THEN "posted" ELSE R.did,
                   btn |-> "",
                   credOk |-> TOKEN_FILE.exists /\ TOKEN_FILE.valid,
                   role |-> session_state.user_role,
                   api |-> R.api, back |-> R.back, shown |-> R.shown,
                   follows |-> out.did, signedOutOf |-> "",
                   fileLeft |-> R.file.exists]
        /\ UNCHANGED <<nextCred, page, code, replaced, selects, work, pc>>

\* The user reloads the instructor page.
InstrOpen ==
    /\ pend = "idle"
    /\ \E fetch \in Fetches :
          InstrRun("none", 0, BlankForm, fetch[1], fetch[2], TRUE, TRUE)

\* The user clicks a button of the page as last rendered.
InstrClick(ev, c) ==
    /\ pend = "idle"
    /\ ev \in Clickable(out) \ {"sidebar_sign_out"}
    /\ IF ev = "manage" THEN c \in out.shown ELSE c = 0
    /\ \E fetch \in Fetches :
          InstrRun(ev, c, BlankForm, fetch[1], fetch[2], TRUE, TRUE)

\* The user submits a form of the page as last rendered.
InstrSubmit(ev) ==
    /\ pend = "idle"
    /\ ev \in Forms(out)
    /\ \E form \in FormInputs(ev), fetch \in Fetches,
          ok1 \in BOOLEAN,
          ok2 \in IF ev = "enroll_student_form" THEN BOOLEAN ELSE {TRUE} :
          /\ ok2 \/ ok1
          /\ InstrRun(ev, 0, form, fetch[1], fetch[2], ok1, ok2)

\* The run that st.rerun() or st.switch_page() asked for.
InstrRerun ==
    /\ pend = "rerun"
    /\ \E fetch \in Fetches :
          InstrRun("rerun", 0, BlankForm, fetch[1], fetch[2], TRUE, TRUE)

\* Another client of the remote system edits (renames, moves) the course
\* whose dict the session holds.
RemoteEdit ==
    /\ session_state.current_course > 0
    /\ course_copy' = "stale"
    /\ act' = [NoAct EXCEPT !.ev = "remote_edit"]
    /\ UNCHANGED <<TOKEN_FILE, nextCred, page, session_state, pend, code,
                   out, replaced, selects, classroom, work, pc>>

\* The session has chosen the instructor role and "Go to Dashboard" has
\* switched it to the instructor page; the remote system holds any courses
\* and rosters.
InitInstr ==
    /\ TOKEN_FILE = NewCred(1)
    /\ nextCred = 2
    /\ page = "instructor"
    /\ session_state = [EmptySS EXCEPT !.user_role = "instructor"]
    /\ pend = "rerun"
    /\ code = FALSE
    /\ out = [page |-> "login", view |-> "Welcome", did |-> "switch",
              btn |-> "", credOk |-> TRUE, role |-> "instructor",
              api |-> FALSE, back |-> FALSE, shown |-> {},
              follows |-> "none", signedOutOf |-> "", fileLeft |-> TRUE]
    /\ replaced = "absent"
    /\ selects = 1
    /\ classroom \in
          [courses : [Courses -> BOOLEAN],
           students : [Courses -> [Students -> {0, 1}]]]
    /\ \A k \in Courses :
          ~classroom.courses[k]
              => \A s \in Students : classroom.students[k][s] = 0
    /\ course_copy = "none"
    /\ act = NoAct
    /\ work = NoWork
    /\ pc = NoRun

NextInstr ==
    \/ InstrOpen
    \/ \E ev \in {"create_new_course", "back_to_all_courses", "manage",
                  "create_first_course"}, c \in {0} \cup Courses :
          InstrClick(ev, c)
    \/ \E ev \in {"create_course_form", "announcement_form",
                  "enroll_student_form", "material_form",
                  "assignment_form"} : InstrSubmit(ev)
    \/ InstrRerun
    \/ RemoteEdit

SpecInstr == InitInstr /\ [][NextInstr]_vars

\* ------------------------------------------------------ the status badge
\* The assignments the remote system may return
Assignments ==
    {NoWork.assignment}
    \cup {[dueDate |-> d, dueTime |-> [hours |-> h, minutes |-> m]] :
             d \in 0..MaxDay, h \in Hours, m \in Minutes}

\* The states of a submission as get_assignment_submission returns them
\* ("" when the lookup failed or found none)
SubmissionStates == {"TURNED_IN", "CREATED", ""}

\* The moments datetime.now() may return
Nows == {datetime(d, h, m) : d \in 0..MaxDay, h \in {0, 23}, m \in {0, 59}}

\* The course-detail view reaches the status badge of an assignment.
ShowStatus ==
    /\ work.status = "none"
    /\ work' = [work EXCEPT !.status = submission_status(work.assignment,
                                                         work.state, work.now)]
    /\ UNCHANGED <<TOKEN_FILE, nextCred, page, session_state, pend, code,
                   out, replaced, selects, ext, pc>>

\* A student's course-detail view is about to show an assignment: any
\* assignment, any submission state, any moment.
InitStatus ==
    /\ TOKEN_FILE = NewCred(1)
    /\ nextCred = 2
    /\ page = "student"
    /\ session_state = [EmptySS EXCEPT !.user_role = "student",
                                       !.current_course = 1]
    /\ pend = "idle"
    /\ code = FALSE
    /\ out = [page |-> "student", view |-> "S_Detail", did |-> "none",
              btn |-> "", credOk |-> TRUE, role |-> "student",
              api |-> TRUE, back |-> TRUE, shown |-> {},
              follows |-> "none", signedOutOf |-> "", fileLeft |-> TRUE]
    /\ replaced = "absent"
    /\ selects = 1
    /\ classroom = NoClassroom
    /\ course_copy = "none"
    /\ act = NoAct
    /\ work \in [assignment : Assignments, state : SubmissionStates,
                 now : Nows, status : {"none"}]
    /\ pc = NoRun

NextStatus == ShowStatus

SpecStatus == InitStatus /\ [][NextStatus]_vars

\* ------------------------------------------------------ the student session
\* An assignment with the state of the student's submission
Works == [assignment : {NoWork.assignment,
                        [dueDate |-> 0,
                         dueTime |-> [hours |-> -1, minutes |-> -1]],
                        [dueDate |-> MaxDay,
                         dueTime |-> [hours |-> 0, minutes |-> 0]]},
          state : {"TURNED_IN", ""}]

\* The lists of at most n assignments
WorkLists(n) == UNION {[1..k -> Works] : k \in 0..n}

\* One run of 3_student.py against the remote classroom: the event ev (on
\* course c), the userinfo lookup going through or not, the courses and
\* the assignments the remote system lists, the clock, and the list call
\* that raises.
StudentRun(ev, c, uiOk, courses, works, now, fail) ==
    LET C == student_content(session_state.current_course, works, now, fail)
        R == student_main(TOKEN_FILE, session_state, ev, c, uiOk, courses,
                          C.ok)
        calls == IF R.view \in {"PleaseLogin", "SessionExpired"} THEN <<>>
                 ELSE IF R.view \in {"S_List", "S_Detail", "S_ContentError"}
                 THEN <<read("userinfo.get", 0)>> \o C.calls
                 ELSE <<read("userinfo.get", 0)>>
        shown == IF Len(calls) > 1 THEN C.last ELSE 0
    IN  /\ TOKEN_FILE' = R.file
        /\ session_state' = R.ss
        /\ pend' = R.pend
        /\ act' = [NoAct EXCEPT !.ev = ev, !.calls = calls]
        /\ work' = IF shown = 0 THEN NoWork
                   ELSE [assignment |-> works[shown].assignment,
                         state |-> works[shown].state, now |-> now,
                         status |-> submission_status(
                                        works[shown].assignment,
                                        works[shown].state, now)]
        /\ out' = [page |-> "student", view |-> R.view, did |-> R.did,
                   btn |-> "",
                   credOk |-> TOKEN_FILE.exists /\ TOKEN_FILE.valid,
                   role |-> session_state.user_role,
                   api |-> R.api, back |-> R.back, shown |-> R.shown,
                   follows |-> out.did, signedOutOf |-> "",
                   fileLeft |-> R.file.exists]
        /\ UNCHANGED <<nextCred, page, code, replaced, selects, classroom,
                       course_copy, pc>>

\* What the remote system and the clock may present to a run: the courses
\* matter to the course list only, the assignments and the clock to the
\* course-detail view only
StudentInputs(ev, c) ==
    \E uiOk \in BOOLEAN,
       courses \in IF session_state.current_course > 0 THEN {{}}
                   ELSE SUBSET Courses,
       works \in IF session_state.current_course > 0
                 THEN WorkLists(MaxAssignments) ELSE {<<>>},
       now \in IF session_state.current_course > 0
               THEN {datetime(0, 0, 0), datetime(MaxDay, 23, 59)}
               ELSE {datetime(0, 0, 0)},
       fail \in 0..3 :
          /\ uiOk \/ fail = 0
          /\ StudentRun(ev, c, uiOk, courses, works, now, fail)

\* The user reloads the student page.
StudentOpen == pend = "idle" /\ StudentInputs("none", 0)

\* The user clicks a button of the page as last rendered.
StudentClick(ev, c) ==
    /\ pend = "idle"
    /\ ev \in Clickable(out)
    /\ IF ev = "view" THEN c \in out.shown ELSE c = 0
    /\ StudentInputs(ev, c)

\* The run that st.rerun() or st.switch_page() asked for.
StudentRerun == pend = "rerun" /\ StudentInputs("rerun", 0)

\* The session has chosen the student role and "Go to Dashboard" has
\* switched it to the student page.
InitStudent ==
    /\ TOKEN_FILE = NewCred(1)
    /\ nextCred = 2
    /\ page = "student"
    /\ session_state = [EmptySS EXCEPT !.user_role = "student"]
    /\ pend = "rerun"
    /\ code = FALSE
    /\ out = [page |-> "login", view |-> "Welcome", did |-> "switch",
              btn |-> "", credOk |-> TRUE, role |-> "student",
              api |-> FALSE, back |-> FALSE, shown |-> {},
              follows |-> "none", signedOutOf |-> "", fileLeft |-> TRUE]
    /\ replaced = "absent"
    /\ selects = 1
    /\ classroom = NoClassroom
    /\ course_copy = "none"
    /\ act = NoAct
    /\ work = NoWork
    /\ pc = NoRun

NextStudent ==
    \/ StudentOpen
    \/ \E ev \in {"view", "back_to_all_courses", "sidebar_sign_out"},
          c \in {0} \cup Courses : StudentClick(ev, c)
    \/ StudentRerun
    \/ Expire

SpecStudent == InitStudent /\ [][NextStudent]_vars

\* --------------------------------------------- the session, access by access
\* A run of page p starts: a reload, the rerun a sign-out asked for, or a
\* click on the Sign Out button the page showed.
Begin(p, ev) ==
    /\ pc.at = "idle"
    /\ IF pend = "rerun" THEN p = page /\ ev = "none"
       ELSE ev = "none"
            \/ (p = out.page /\ ev \in Clickable(out) \cap SignOutButtons)
    /\ pc' = [at |-> IF p = "login" THEN "l31" ELSE "d201", ev |-> ev]
    /\ page' = p
    /\ pend' = "idle"
    /\ UNCHANGED <<TOKEN_FILE, nextCred, session_state, code, out, replaced,
                   selects, ext, work>>

\* The run makes its next access to TOKEN_FILE.
Access ==
    /\ pc.at # "idle"
    /\ LET A == IF page = "login"
                THEN login_access(pc.at, pc.ev, TOKEN_FILE, session_state)
                ELSE dashboard_access(page, pc.at, pc.ev, TOKEN_FILE,
                                      session_state)
       IN  /\ TOKEN_FILE' = A.file
           /\ session_state' = A.ss
           /\ pc' = IF A.at = "idle" THEN NoRun ELSE [pc EXCEPT !.at = A.at]
           /\ pend' = IF A.did = "signout" THEN "rerun" ELSE "idle"
           /\ out' = IF A.at # "idle" THEN out
                     ELSE [page |-> page, view |-> A.view, did |-> A.did,
                           btn |-> "", credOk |-> FALSE,
                           role |-> session_state.user_role,
                           api |-> FALSE,
                           back |-> A.ss.current_course > 0,
                           shown |-> {}, follows |-> pc.ev,
                           signedOutOf |-> "", fileLeft |-> A.file.exists]
    /\ UNCHANGED <<nextCred, page, code, replaced, selects, ext, work>>

\* The session is signed in with a role chosen; other sessions of the
\* process share TOKEN_FILE.
InitRace ==
    /\ TOKEN_FILE = NewCred(1)
    /\ nextCred = 2
    /\ page = "login"
    /\ session_state \in {[EmptySS EXCEPT !.user_role = r] :
                             r \in {"instructor", "student"}}
    /\ pend = "idle"
    /\ code = FALSE
    /\ out = [page |-> "login", view |-> "Welcome", did |-> "none",
              btn |-> "", credOk |-> TRUE, role |-> session_state.user_role,
              api |-> FALSE, back |-> FALSE, shown |-> {},
              follows |-> "none", signedOutOf |-> "", fileLeft |-> TRUE]
    /\ replaced = "absent"
    /\ selects = 1
    /\ classroom = NoClassroom
    /\ course_copy = "none"
    /\ act = NoAct
    /\ work = NoWork
    /\ pc = NoRun

NextRace ==
    \/ \E p \in Pages, ev \in {"none"} \cup SignOutButtons : Begin(p, ev)
    \/ Access
    \/ Expire
    \/ OtherExchange
    \/ OtherSignOut
    \/ OtherEntryCheck

SpecRace == InitRace /\ [][NextRace]_vars

\* ================================================================ claims
\* What a run shows of the Instructor View or the Student View
DashboardViews ==
    {"I_Sidebar", "I_CreateForm", "I_Detail", "I_ContentError", "I_List",
     "S_Sidebar", "S_Detail", "S_ContentError", "S_List"}

\* C1: a run that shows Instructor View or Student View content started
\* with the session's role set.
C1_RoleSetInRoleViews ==
    out.view \in DashboardViews => out.role # "absent"

\* C2: a run shows the Role Selector or dashboard content, or issues a
\* Classroom API call, only if a valid credential was on disk when the run
\* started.
C2_GatedByValidCredential ==
    (out.view \in {"RoleSelector"} \cup DashboardViews \/ out.api)
        => out.credOk

C2_Witness ==
    out.view = "I_List" /\ out.api /\ out.credOk /\ out.shown # {}

\* C3: a sign-out leaves no credential file and a session state with no
\* keys, and the session's next run finds no valid credential
\* (Unauthenticated).
C3_SignOutLandsUnauthenticated ==
    /\ out.did = "signout" => (~out.fileLeft /\ session_state = EmptySS)
    /\ out.follows = "signout" => ~out.credOk

\* C4: a dashboard run that finds the credential missing or invalid stops,
\* leaves no credential file and discards the session state.
C4_EntryCheckDiscardsSession ==
    out.view \in {"PleaseLogin", "SessionExpired"}
        => (~out.fileLeft /\ session_state = EmptySS)

\* C5: the role goes from unset to set only in a run of the Role Selector
\* in which a role button was clicked, and to that button's role.
C5_RoleOnlyByButton ==
    [][(session_state.user_role = "absent"
            /\ session_state'.user_role # "absent")
        => /\ out'.view = "RoleSelector"
           /\ out'.btn \in RoleButtons
           /\ session_state'.user_role =
                 (IF out'.btn = "student_role_select_btn" THEN "student"
                  ELSE "instructor")]_vars

C5_Witness ==
    /\ out.did = "role" /\ out.btn = "instructor_role_select_btn"
    /\ out.role = "absent" /\ session_state.user_role = "instructor"

\* C6: a successful exchange leaves a credential file, and the run that
\* follows it (when the credential is still valid and the userinfo lookup
\* succeeds) shows the Role Selector with the role unset.
C6_ExchangeThenRoleSelector ==
    /\ out.did = "exchange" => out.fileLeft
    /\ (out.follows = "exchange" /\ out.credOk /\ out.view # "Exception")
          => (out.view = "RoleSelector" /\ out.role = "absent")

\* C7: a failed exchange reports the error beside the code input, leaves
\* the credential file as it was, asks for no rerun, changes no session
\* state, and the code input can be submitted again.
C7_FailedExchangeChangesNothing ==
    [][(pend = "exchanging" /\ out'.did = "exchange_failed")
        => /\ TOKEN_FILE' = TOKEN_FILE
           /\ out'.view = "UnauthError"
           /\ pend' = "idle"
           /\ page' = "login"
           /\ session_state' = session_state
           /\ "auth_code_input" \in Clickable(out')]_vars

\* a code submitted after a failed exchange was exchanged successfully,
\* and the failed exchange had a file to leave alone
C7_Witness ==
    /\ out.did = "exchange" /\ out.follows = "exchange_failed"
    /\ replaced = "invalid"

\* C8: a successful exchange leaves exactly the newly issued credential on
\* disk, whatever was there before.
C8_ExchangeReplaces ==
    [][(pend = "exchanging" /\ out'.did = "exchange")
        => /\ TOKEN_FILE' = NewCred(nextCred)
           /\ TOKEN_FILE'.id # TOKEN_FILE.id]_vars

\* the session's exchange overwrote a valid credential of another session
C8_Witness ==
    out.did = "exchange" /\ replaced = "valid" /\ TOKEN_FILE.id = 2

\* C9: the run that follows a sign-out from a dashboard (and finds no valid
\* credential) is the login page's Unauthenticated view.
C9_SignOutReturnsToLogin ==
    (out.signedOutOf \in {"instructor", "student"} /\ ~out.credOk)
        => (out.page = "login" /\ out.view = "Unauth")

\* C10: a role once set keeps its value until the session's sign-out
\* clears it, no run shows the Role Selector with the role set, and a role
\* is selected at most once between sign-outs.
C10_RoleKept ==
    /\ [](out.view = "RoleSelector" => out.role = "absent")
    /\ [](selects <= 1)
    /\ [][session_state.user_role # "absent"
            => \/ session_state'.user_role = session_state.user_role
               \/ out'.did = "signout" /\ session_state' = EmptySS]_vars

C10_Witness ==
    /\ session_state.user_role = "student" /\ selects = 1
    /\ out.view = "S_Detail" /\ out.role = "student"

\* Every remote call the latest run's form issued went through
AllWentThrough(a) == \A i \in 1..Len(a.oks) : a.oks[i]

\* The ops of the remote calls the latest run's form issued
Ops(a) == {a.calls[i].op : i \in 1..Len(a.calls)}

\* C11: when the calls go through, enrolling an identity that is not on the
\* course's roster issues one create call, leaves one roster entry and
\* reports success; enrolling it again reports a warning (no error), issues
\* no create call and leaves the one roster entry; no roster ever holds two
\* entries of an identity.
C11_EnrollTwice ==
    /\ [](\A k \in Courses, e \in Students : classroom.students[k][e] <= 1)
    /\ [][(act'.ev = "enroll_student_form" /\ act'.calls # <<>>
              /\ AllWentThrough(act'))
          => LET k == act'.calls[1].course
                 e == act'.calls[1].body.userId
             IN  IF classroom.students[k][e] = 0
                 THEN /\ act'.msg = "success"
                      /\ Len(act'.calls) = 2
                      /\ act'.calls[2].op = "students.create"
                      /\ classroom'.students[k][e] = 1
                 ELSE /\ act'.msg = "warning"
                      /\ "students.create" \notin Ops(act')
                      /\ classroom'.students[k][e] = 1]_vars

\* the second attempt: a warning for an identity with one roster entry
C11_Witness ==
    /\ act.ev = "enroll_student_form" /\ act.msg = "warning"
    /\ Ops(act) = {"students.list"}
    /\ classroom.students[act.calls[1].course][act.calls[1].body.userId] = 1

FormEvents ==
    {"create_course_form", "announcement_form", "enroll_student_form",
     "material_form", "assignment_form"}

\* C14: a form submission one of whose remote calls fails shows an error,
\* leaves show_create_course and current_course (and the remote classroom)
\* as they were, asks for no rerun, and issues the failed call once.
C14_FailedActionChangesNothing ==
    [][(act'.ev \in FormEvents /\ ~AllWentThrough(act'))
        => /\ act'.msg = "error"
           /\ session_state'.show_create_course
                 = session_state.show_create_course
           /\ session_state'.current_course = session_state.current_course
           /\ course_copy' = course_copy
           /\ pend' = "idle"
           /\ classroom' = classroom
           /\ ~act'.oks[Len(act'.calls)]
           /\ Cardinality(Ops(act')) = Len(act'.calls)]_vars

\* a failed create-assignment call in the course-detail view
C14_Witness ==
    /\ act.ev = "assignment_form" /\ act.msg = "error"
    /\ Ops(act) = {"courseWork.create"} /\ act.oks = <<FALSE>>
    /\ session_state.current_course > 0 /\ pend = "idle"

C16_OneCreatePerSubmission ==
    /\ Cardinality({i \in 1..Len(act.calls) :
                       act.calls[i].op # "students.list"}) <= 1
    /\ act.ev \notin FormEvents => act.calls = <<>>

\* the rerun after a successful action of the course-detail view
C16_Witness ==
    /\ act.ev = "rerun" /\ out.follows = "posted"
    /\ out.view = "I_Detail" /\ act.calls = <<>>

\* The required field of the form ev is left empty
RequiredEmpty(ev, form) ==
    IF ev = "create_course_form" THEN form.title = ""
    ELSE IF ev = "announcement_form" THEN form.text = ""
    ELSE IF ev = "enroll_student_form" THEN form.email = 0
    ELSE IF ev = "material_form"
    THEN IF form.kind = "Google Drive File" THEN form.drive_file_id = ""
         ELSE form.link_url = ""
    ELSE form.title = ""

\* C17: a form submitted with its required field empty issues no remote
\* call and changes no state.
C17_EmptyFieldNoCall ==
    [][\A ev \in FormEvents :
         \A form \in FormInputs(ev), fetch \in Fetches, ok1 \in BOOLEAN :
            (/\ RequiredEmpty(ev, form)
             /\ pend = "idle"
             /\ ev \in Forms(out)
             /\ InstrRun(ev, 0, form, fetch[1], fetch[2], ok1, TRUE))
            => /\ act'.calls = <<>>
               /\ session_state' = session_state
               /\ classroom' = classroom
               /\ pend' = "idle"]_vars

\* C18: the course data a run shows in the course-detail view are those of
\* the remote course at that run.
C18_DetailShowsRemote == ~act.stale

\* C13: no run ends in an exception that escaped it: a failed userinfo
\* lookup or content read is caught in the run and shown as a message.
C13_NoExceptionEscapes ==
    out.view \notin {"Exception", "I_ContentError", "S_ContentError"}

\* C12: for an assignment with a due date the badge is Submitted exactly
\* when the submission state is TURNED_IN, whatever the clock; otherwise
\* Late exactly when the clock is past the due moment and Pending when it
\* is before or at it; it is one of the three.
C12_StatusFunction ==
    (work.status # "none" /\ work.assignment.dueDate # -1)
        => /\ work.status \in {"Submitted", "Late", "Pending"}
           /\ work.status = "Submitted" <=> work.state = "TURNED_IN"
           /\ work.status = "Late"
                 <=> (work.state # "TURNED_IN"
                        /\ work.now > due_datetime(work.assignment))
           /\ work.status = "Pending"
                 <=> (work.state # "TURNED_IN"
                        /\ work.now <= due_datetime(work.assignment))

\* the clock stands exactly at the due moment of an open assignment
C12_Witness ==
    /\ work.status = "Pending" /\ work.state = "CREATED"
    /\ work.assignment.dueDate # -1
    /\ work.now = due_datetime(work.assignment)

\* The remote operations that only read
ReadOps ==
    {"userinfo.get", "courses.list", "announcements.list", "courseWork.list",
     "studentSubmissions.list", "courseWorkMaterials.list"}

\* The active course of a session state (0: none)
ActiveCourse(st) == IF st.current_course > 0 THEN st.current_course ELSE 0

\* C19: a run of the student page issues only remote reads; unless it is
\* the sign-out, it writes no key of the session state but current_course
\* (so the status badge it computed is stored under none), and it changes
\* the active course only on View Course or Back to All Courses.
C19_StudentReadOnly ==
    /\ [](Ops(act) \subseteq ReadOps)
    /\ [][out'.did # "signout"
          => /\ session_state'
                   = [session_state EXCEPT
                         !.current_course = session_state'.current_course]
             /\ ActiveCourse(session_state') # ActiveCourse(session_state)
                   => act'.ev \in {"view", "back_to_all_courses"}]_vars

\* a course-detail run that fetched a submission and showed its badge
C19_Witness ==
    /\ out.view = "S_Detail" /\ work.status = "Late"
    /\ "studentSubmissions.list" \in Ops(act)
    /\ "courseWorkMaterials.list" \in Ops(act)

\* C20: whatever the other sessions do to the shared credential file
\* between two accesses of a run, no run ends in an unhandled exception,
\* and a run that reaches its Sign Out handler clears the session state.
C20_NoRaceFailure ==
    /\ out.view # "Exception"
    /\ (pc.at = "idle" /\ out.follows \in SignOutButtons
           /\ out.view \notin {"PleaseLogin", "SessionExpired",
                               "InvalidSession", "NoCredentials", "Unauth"})
        => session_state = EmptySS

\* C21: a run that handles Go to Dashboard switches to the instructor page
\* exactly when the role the session held was instructor, and to the
\* student page exactly when it was student.
C21_DashboardByRole ==
    out.did = "switch"
        => /\ page = "instructor" <=> out.role = "instructor"
           /\ page = "student" <=> out.role = "student"

C21_Witness ==
    out.did = "switch" /\ out.role = "instructor" /\ page = "instructor"

\* A material is one variant: a drive file with an id, or a link with a
\* url and a title
OneVariant(m) ==
    \/ DOMAIN m = {"driveFile"} /\ m.driveFile.driveFile.id # ""
    \/ DOMAIN m = {"link"} /\ m.link.url # "" /\ m.link.title # ""

\* The materials of sequence ms that are of the variant v
OfVariant(ms, v) == {i \in 1..Len(ms) : DOMAIN ms[i] = {v}}

\* C22: a material upload that reaches the remote system carries exactly
\* one material, of the variant selected in the form and with the values
\* entered; the materials of an assignment are each one variant, a drive
\* file exactly when a file id was entered and a link exactly when both
\* url and title were, in that order and with the values entered.
C22_MaterialVariants ==
    /\ [][\A form \in FormInputs("material_form"), fetch \in Fetches,
            ok1 \in BOOLEAN :
            (/\ pend = "idle"
             /\ "material_form" \in Forms(out)
             /\ InstrRun("material_form", 0, form, fetch[1], fetch[2],
                         ok1, TRUE)
             /\ act'.calls # <<>>)
            => LET ms == act'.calls[1].body.materials
               IN  /\ Len(act'.calls) = 1
                   /\ Len(ms) = 1
                   /\ OneVariant(ms[1])
                   /\ IF form.kind = "Google Drive File"
                      THEN /\ DOMAIN ms[1] = {"driveFile"}
                           /\ ms[1].driveFile.driveFile.id
                                 = form.drive_file_id
                      ELSE /\ DOMAIN ms[1] = {"link"}
                           /\ ms[1].link.url = form.link_url
                           /\ ms[1].link.title = form.link_title]_vars
    /\ [][\A form \in FormInputs("assignment_form"), fetch \in Fetches,
            ok1 \in BOOLEAN :
            (/\ pend = "idle"
             /\ "assignment_form" \in Forms(out)
             /\ InstrRun("assignment_form", 0, form, fetch[1], fetch[2],
                         ok1, TRUE)
             /\ act'.calls # <<>>)
            => LET ms == act'.calls[1].body.materials
                   files == OfVariant(ms, "driveFile")
                   links == OfVariant(ms, "link")
               IN  /\ Len(ms) <= 2
                   /\ \A i \in 1..Len(ms) : OneVariant(ms[i])
                   /\ Cardinality(files)
                         = IF form.drive_file_id # "" THEN 1 ELSE 0
                   /\ Cardinality(links)
                         = IF form.link_url # "" /\ form.link_title # ""
                           THEN 1 ELSE 0
                   /\ \A i \in files :
                         ms[i].driveFile.driveFile.id = form.drive_file_id
                   /\ \A i \in links :
                         /\ ms[i].link.url = form.link_url
                         /\ ms[i].link.title = form.link_title]_vars

\* an assignment created with a drive file and a link
C22_Witness ==
    /\ act.ev = "assignment_form" /\ act.msg = "success"
    /\ Len(act.calls[1].body.materials) = 2

\* C23: a run that shows the Role Selector has queried the remote system
\* for the courses the identity teaches (a Classroom API call).
C23_RoleSelectorQueries ==
    out.view = "RoleSelector" => out.api

\* C24: the status badge of every assignment the view reaches is one of
\* Submitted, Late and Pending, whether or not the assignment carries a due
\* date or a due time.
C24_EveryAssignmentHasStatus ==
    work.status \in {"none", "Submitted", "Late", "Pending"}

\* C25: an enrollment starts with the roster query; the create call is
\* issued, after it, only when the query went through and found no entry of
\* the identity; the outcome is one of success, warning and error, success
\* exactly when the create call went through and warning exactly when the
\* query found an entry; on error the rosters are as they were.
C25_QueryBeforeCreate ==
    [][(act'.ev = "enroll_student_form" /\ act'.calls # <<>>)
        => LET k == act'.calls[1].course
               e == act'.calls[1].body.userId
               n == Len(act'.calls)
           IN  /\ act'.calls[1].op = "students.list"
               /\ n <= 2
               /\ n = 2 <=> (act'.oks[1] /\ classroom.students[k][e] = 0)
               /\ n = 2 => /\ act'.calls[2].op = "students.create"
                           /\ act'.calls[2].course = k
                           /\ act'.calls[2].body.userId = e
               /\ act'.msg \in {"success", "warning", "error"}
               /\ act'.msg = "success" <=> (n = 2 /\ act'.oks[2])
               /\ act'.msg = "warning"
                     <=> (act'.oks[1] /\ classroom.students[k][e] > 0)
               /\ act'.msg = "error" => classroom' = classroom
               /\ out'.view = "I_Detail"]_vars

\* a create call that failed after a roster query that found no entry
C25_Witness ==
    /\ act.ev = "enroll_student_form" /\ act.msg = "error"
    /\ Len(act.calls) = 2 /\ act.oks = <<TRUE, FALSE>>
    /\ classroom.students[act.calls[1].course][act.calls[1].body.userId] = 0

\* C26: a run of the instructor page that shows the create-course form
\* chose it with current_course unset, and one that shows the course detail
\* or the course list chose it with show_create_course false.
C26_FormAndCourseExclusive ==
    /\ out.view = "I_CreateForm"
          => /\ session_state.show_create_course = "true"
             /\ session_state.current_course <= 0
    /\ (out.view = "I_Detail" /\ out.did = "none")
          => /\ session_state.show_create_course = "false"
             /\ session_state.current_course > 0

\* C27: a course selected with Manage in the instructor view (the run
\* showed the instructor's course list and left current_course set) is not
\* what the session's next run shows as the student view's course detail,
\* nor is a course selected with View Course in the student view shown as
\* the instructor view's course detail.
C27_CourseOfOwnView ==
    [][/\ (out.view = "I_List" /\ session_state.current_course > 0
              /\ out'.page = "student")
          => out'.view # "S_Detail"
       /\ (out.view = "S_List" /\ session_state.current_course > 0
              /\ out'.page = "instructor")
          => out'.view # "I_Detail"]_vars

\* C28: the run in which a card's Manage or View Course button sets
\* current_course shows the course detail, not the course list: no run
\* that shows a course list leaves a course selected.
C28_ClickShowsDetail ==
    out.view \in {"I_List", "S_List"} => session_state.current_course <= 0

====
